---------------------------- MODULE Spec2Model ----------------------------
(***************************************************************************)
(* The ledger store, the ledger mutators and the aggregation queries of    *)
(* src/core.py, driven as src/app.py drives them.                          *)
(*                                                                         *)
(* A cell that may be NULL (a grid cell of the manual-input tables, a      *)
(* column of a query result) is the empty tuple <<>> when it is NULL/NaN   *)
(* and the one-element tuple <<v>> when it holds v.  The columns of the    *)
(* two tables are declared NOT NULL and hold plain values.                 *)
(*                                                                         *)
(* Money is REAL in the store; every amount of the model is a whole        *)
(* number far below 2^53, so the floating-point sums are exact and are     *)
(* modelled by integer sums.  ORDER BY is not modelled: a query result is  *)
(* a sequence holding the right rows in an arbitrary order.                *)
(***************************************************************************)
EXTENDS Integers, Sequences, FiniteSets, TLC

VARIABLES
    accounts,          \* table accounts: set of rows, account_id is the key
    journal_entries,   \* table journal_entries: set of rows, entry_id is the key
    accounts_df,       \* the accounts grid handed to apply_manual_entries
    journal_df,        \* the journal grid handed to apply_manual_entries
    lastOp,            \* the last mutator called: "init", "seed", "clear", "replace"
    lastOk,            \* TRUE iff that call returned, FALSE iff it raised
    prevAccounts,      \* accounts as it was when that call started
    prevEntries,       \* journal_entries as it was when that call started
    call,              \* per thread: the mutator call it is in, and where
    work,              \* per connection: its open transaction, if any
    lock,              \* the connection holding SQLite's write lock, or "none"
    reader             \* the get_balance_sheet_detail_totals() call under way

vars == <<accounts, journal_entries, accounts_df, journal_df,
          lastOp, lastOk, prevAccounts, prevEntries,
          call, work, lock, reader>>

----------------------------------------------------------------------------
(* Bounds of the manual-input grids. *)

MaxAccountRows == 2
MaxJournalRows == 2
\* rows of the two grids together
MaxGridRows == 4

----------------------------------------------------------------------------
(* Cells. *)

Null == <<>>

Cell(v) == <<v>>

\* pd.isna(x)
IsNa(c) == c = Null

\* int(x), float(x) of a cell that holds a whole number
NumOf(c) == c[1]

\* str(x): the text itself, and "None" for a missing value
StrOf(c) == IF c = Null THEN "None" ELSE c[1]

----------------------------------------------------------------------------
(* The seed dataset. *)

Acct(id, name, type) ==
    [account_id |-> id, account_name |-> name, account_type |-> type]

Entry(id, acc, date, debit, credit) ==
    [entry_id |-> id, account_id |-> acc, entry_date |-> date,
     debit |-> debit, credit |-> credit]

SeedAccountRows ==
    << Acct(1,  "Cash",                "Asset"),
       Acct(2,  "Accounts Receivable", "Asset"),
       Acct(3,  "Inventory",           "Asset"),
       Acct(4,  "Equipment",           "Asset"),
       Acct(5,  "Accounts Payable",    "Liability"),
       Acct(6,  "Notes Payable",       "Liability"),
       Acct(7,  "Owner Capital",       "Equity"),
       Acct(8,  "Owner Drawings",      "Equity"),
       Acct(9,  "Service Revenue",     "Revenue"),
       Acct(10, "Sales Revenue",       "Revenue"),
       Acct(11, "Rent Expense",        "Expense"),
       Acct(12, "Wages Expense",       "Expense"),
       Acct(13, "Supplies Expense",    "Expense") >>

SeedJournalRows ==
    << Entry(1,  1,  "2025-01-01", 50000, 0),
       Entry(2,  7,  "2025-01-01", 0, 50000),
       Entry(3,  3,  "2025-01-05", 12000, 0),
       Entry(4,  5,  "2025-01-05", 0, 12000),
       Entry(5,  5,  "2025-01-10", 5000, 0),
       Entry(6,  1,  "2025-01-10", 0, 5000),
       Entry(7,  1,  "2025-01-15", 18000, 0),
       Entry(8,  9,  "2025-01-15", 0, 18000),
       Entry(9,  2,  "2025-01-20", 25000, 0),
       Entry(10, 10, "2025-01-20", 0, 25000),
       Entry(11, 11, "2025-01-25", 3000, 0),
       Entry(12, 1,  "2025-01-25", 0, 3000),
       Entry(13, 12, "2025-01-28", 4000, 0),
       Entry(14, 1,  "2025-01-28", 0, 4000),
       Entry(15, 4,  "2025-01-30", 10000, 0),
       Entry(16, 1,  "2025-01-30", 0, 10000),
       Entry(17, 8,  "2025-01-31", 2000, 0),
       Entry(18, 1,  "2025-01-31", 0, 2000) >>

----------------------------------------------------------------------------
(* A transaction: the connection's view of the two tables, and whether a   *)
(* statement has raised.  Once a statement raises nothing more executes.   *)

Begin(acc, je) == [accounts |-> acc, journal_entries |-> je, ok |-> TRUE]

\* DELETE FROM journal_entries;
DeleteEntries(t) == [t EXCEPT !.journal_entries = {}]

\* DELETE FROM accounts;
DeleteAccounts(t) == [t EXCEPT !.accounts = {}]

\* DELETE FROM journal_entries; DELETE FROM accounts;
ClearTablesKeepingAccounts(t) == [t EXCEPT !.journal_entries = {}]

ClearTables(t) == [t EXCEPT !.journal_entries = {}, !.accounts = {}]

\* INSERT INTO accounts: account_id INTEGER PRIMARY KEY rejects a second row
\* with the same account_id (IntegrityError)
ExecInsertAccount(t, rec) ==
    IF \E a \in t.accounts : a.account_id = rec.account_id
    THEN [t EXCEPT !.ok = FALSE]
    ELSE [t EXCEPT !.accounts = @ \cup {rec}]

\* INSERT INTO journal_entries: entry_id INTEGER PRIMARY KEY; the table
\* declares no foreign key, so account_id is not looked up in accounts
ExecInsertEntry(t, rec) ==
    IF \E j \in t.journal_entries : j.entry_id = rec.entry_id
    THEN [t EXCEPT !.ok = FALSE]
    ELSE [t EXCEPT !.journal_entries = @ \cup {rec}]

\* ENGINE.begin(): commit when the block returns, roll back when it raises
EndTransactionNoRollback(pre, t) == <<t.accounts, t.journal_entries>>

EndTransaction(pre, t) ==
    IF t.ok THEN <<t.accounts, t.journal_entries>> ELSE pre

----------------------------------------------------------------------------
(* seed_data *)

RECURSIVE InsertSeedAccounts(_, _, _)
InsertSeedAccounts(rows, i, t) ==
    IF ~t.ok \/ i > Len(rows) THEN t
    ELSE InsertSeedAccounts(rows, i + 1, ExecInsertAccount(t, rows[i]))

RECURSIVE InsertSeedEntries(_, _, _)
InsertSeedEntries(rows, i, t) ==
    IF ~t.ok \/ i > Len(rows) THEN t
    ELSE InsertSeedEntries(rows, i + 1, ExecInsertEntry(t, rows[i]))

\* the four statements of SQL_SEED_DATA, in order, in one transaction
SeedTransaction(acc, je) ==
    InsertSeedEntries(SeedJournalRows, 1,
        InsertSeedAccounts(SeedAccountRows, 1,
            ClearTables(Begin(acc, je))))

----------------------------------------------------------------------------
(* apply_manual_entries *)

AccountRowSkippedIgnoringType(row) ==
    IsNa(row.account_id) \/ IsNa(row.account_name)

AccountRowSkipped(row) ==
    IsNa(row.account_id) \/ IsNa(row.account_name) \/ IsNa(row.account_type)

AccountParams(row) ==
    [account_id   |-> NumOf(row.account_id),
     account_name |-> StrOf(row.account_name),
     account_type |-> StrOf(row.account_type)]

JournalRowSkipped(row) ==
    IsNa(row.entry_id) \/ IsNa(row.account_id)

FallbackDate == "2025-01-01"

JournalParamsCreditFromDebit(row) ==
    [entry_id   |-> NumOf(row.entry_id),
     account_id |-> NumOf(row.account_id),
     entry_date |-> StrOf(IF ~IsNa(row.entry_date) THEN row.entry_date
                          ELSE Cell(FallbackDate)),
     debit      |-> IF ~IsNa(row.debit) THEN NumOf(row.debit) ELSE 0,
     credit     |-> IF ~IsNa(row.debit) THEN NumOf(row.debit) ELSE 0]

JournalParams(row) ==
    [entry_id   |-> NumOf(row.entry_id),
     account_id |-> NumOf(row.account_id),
     entry_date |-> StrOf(IF ~IsNa(row.entry_date) THEN row.entry_date
                          ELSE Cell(FallbackDate)),
     debit      |-> IF ~IsNa(row.debit) THEN NumOf(row.debit) ELSE 0,
     credit     |-> IF ~IsNa(row.credit) THEN NumOf(row.credit) ELSE 0]

RECURSIVE InsertAccountRows(_, _, _)
InsertAccountRows(rows, i, t) ==
    IF ~t.ok \/ i > Len(rows) THEN t
    ELSE IF AccountRowSkipped(rows[i]) THEN InsertAccountRows(rows, i + 1, t)
    ELSE InsertAccountRows(rows, i + 1,
                           ExecInsertAccount(t, AccountParams(rows[i])))

RECURSIVE InsertJournalRows(_, _, _)
InsertJournalRows(rows, i, t) ==
    IF ~t.ok \/ i > Len(rows) THEN t
    ELSE IF JournalRowSkipped(rows[i]) THEN InsertJournalRows(rows, i + 1, t)
    ELSE InsertJournalRows(rows, i + 1,
                           ExecInsertEntry(t, JournalParams(rows[i])))

ManualTransaction(acc, je, adf, jdf) ==
    InsertJournalRows(jdf, 1,
        InsertAccountRows(adf, 1,
            ClearTables(Begin(acc, je))))

----------------------------------------------------------------------------
(* The aggregation queries, over given contents acc and je of the tables.  *)

\* the entries that FROM journal_entries j JOIN accounts a ON j.account_id =
\* a.account_id pairs with an account of the given name and type
JoinedEntries(acc, je, name, type) ==
    LET ids == {a.account_id :
                   a \in {b \in acc : /\ b.account_name = name
                                      /\ b.account_type = type}}
    IN  {j \in je : j.account_id \in ids}

\* SUM(j.debit - j.credit) over the rows of one group
RECURSIVE SumDebitMinusCredit(_)
SumDebitMinusCredit(S) ==
    IF S = {} THEN 0
    ELSE LET j == CHOOSE x \in S : TRUE
         IN  (j.debit - j.credit) + SumDebitMinusCredit(S \ {j})

\* GROUP BY a.account_name, a.account_type over the join restricted to the
\* account types of the set types: one row per group that has a joined entry
GroupedByNameAndType(acc, je, types) ==
    { [account_name |-> a.account_name,
       account_type |-> a.account_type,
       balance      |-> SumDebitMinusCredit(
                            JoinedEntries(acc, je, a.account_name, a.account_type))]
      : a \in {b \in acc : /\ b.account_type \in types
                           /\ b.account_id \in {j.account_id : j \in je}} }

AllTypesOf(acc) == {a.account_type : a \in acc}

\* a set of rows as a sequence, in an arbitrary order
RECURSIVE RowsOf(_)
RowsOf(S) ==
    IF S = {} THEN <<>>
    ELSE LET r == CHOOSE x \in S : TRUE IN <<r>> \o RowsOf(S \ {r})

\* SQL arithmetic: NULL when an operand is NULL
SqlAdd(x, y) == IF IsNa(x) \/ IsNa(y) THEN Null ELSE Cell(x[1] + y[1])

SqlSub(x, y) == IF IsNa(x) \/ IsNa(y) THEN Null ELSE Cell(x[1] - y[1])

(* SQL_TRIAL_BALANCE_LONG *)

Section(type) ==
    CASE type = "Asset"     -> "Assets"
      [] type = "Liability" -> "Liabilities"
      [] type = "Equity"    -> "Equity"
      [] type = "Revenue"   -> "Revenues"
      [] type = "Expense"   -> "Expenses"
      [] OTHER              -> type

\* CASE WHEN balance >= 0 THEN balance ELSE 0 END AS debit
SplitDebitKeepingSign(balance) == balance

SplitDebit(balance) == IF balance >= 0 THEN balance ELSE 0

\* CASE WHEN balance < 0 THEN -balance ELSE 0 END AS credit
SplitCreditUnnegated(balance) == IF balance < 0 THEN balance ELSE 0

SplitCredit(balance) == IF balance < 0 THEN -balance ELSE 0

TrialBalanceLongRow(r) ==
    [section      |-> Section(r.account_type),
     account_name |-> r.account_name,
     debit        |-> SplitDebit(r.balance),
     credit       |-> SplitCredit(r.balance)]

RECURSIVE TrialBalanceLongRows(_)
TrialBalanceLongRows(tb) ==
    IF tb = {} THEN <<>>
    ELSE LET r == CHOOSE x \in tb : TRUE
         IN  <<TrialBalanceLongRow(r)>> \o TrialBalanceLongRows(tb \ {r})

TrialBalanceLong(acc, je) ==
    TrialBalanceLongRows(GroupedByNameAndType(acc, je, AllTypesOf(acc)))

(* SQL_BS_TOTALS *)

BalanceSheetTypes == {"Asset", "Liability", "Equity"}

\* SUM(CASE WHEN account_type = type THEN balance ELSE 0 END) over the rows
\* of S, for S not empty
RECURSIVE SumBalanceWhenType(_, _)
SumBalanceWhenType(S, type) ==
    IF S = {} THEN 0
    ELSE LET r == CHOOSE x \in S : TRUE
         IN  (IF r.account_type = type THEN r.balance ELSE 0)
             + SumBalanceWhenType(S \ {r}, type)

\* an aggregate with no GROUP BY: SUM is NULL when there is no row
SumWhenType(S, type) ==
    IF S = {} THEN Null ELSE Cell(SumBalanceWhenType(S, type))

\* section_totals has exactly one row, whatever bs_accounts holds
BalanceSheetTotals(acc, je) ==
    LET bs_accounts       == GroupedByNameAndType(acc, je, BalanceSheetTypes)
        total_assets      == SumWhenType(bs_accounts, "Asset")
        total_liabilities == SumWhenType(bs_accounts, "Liability")
        total_equity      == SumWhenType(bs_accounts, "Equity")
    IN  << [total_assets       |-> total_assets,
            total_liabilities  |-> total_liabilities,
            total_equity       |-> total_equity,
            balance_difference |->
                SqlSub(total_assets, SqlAdd(total_liabilities, total_equity))] >>

(* SQL_INCOME_STATEMENT *)

IncomeTypes == {"Revenue", "Expense"}

\* CASE WHEN account_type = 'Revenue' THEN -balance ELSE 0 END
RevenueTermUnnegated(r) == IF r.account_type = "Revenue" THEN r.balance ELSE 0

RevenueTerm(r) == IF r.account_type = "Revenue" THEN -r.balance ELSE 0

\* CASE WHEN account_type = 'Expense' THEN balance ELSE 0 END
ExpenseTerm(r) == IF r.account_type = "Expense" THEN r.balance ELSE 0

RECURSIVE SumRevenueTerms(_)
SumRevenueTerms(S) ==
    IF S = {} THEN 0
    ELSE LET r == CHOOSE x \in S : TRUE
         IN  RevenueTerm(r) + SumRevenueTerms(S \ {r})

RECURSIVE SumExpenseTerms(_)
SumExpenseTerms(S) ==
    IF S = {} THEN 0
    ELSE LET r == CHOOSE x \in S : TRUE
         IN  ExpenseTerm(r) + SumExpenseTerms(S \ {r})

\* totals has exactly one row, whatever ie holds
IncomeStatement(acc, je) ==
    LET ie            == GroupedByNameAndType(acc, je, IncomeTypes)
        total_revenue == IF ie = {} THEN Null ELSE Cell(SumRevenueTerms(ie))
        total_expense == IF ie = {} THEN Null ELSE Cell(SumExpenseTerms(ie))
    IN  << [total_revenue |-> total_revenue,
            total_expense |-> total_expense,
            net_income    |-> SqlSub(total_revenue, total_expense)] >>

(* SQL_ACCOUNT_BALANCES and SQL_TRIAL_BALANCE_SHORT *)

EntriesOfAccount(je, id) == {j \in je : j.account_id = id}

\* SUM(j.debit)
RECURSIVE SumDebit(_)
SumDebit(S) ==
    IF S = {} THEN 0
    ELSE LET j == CHOOSE x \in S : TRUE IN j.debit + SumDebit(S \ {j})

\* SUM(j.credit)
RECURSIVE SumCredit(_)
SumCredit(S) ==
    IF S = {} THEN 0
    ELSE LET j == CHOOSE x \in S : TRUE IN j.credit + SumCredit(S \ {j})

GroupedByAccountOfBalanceSheet(acc, je) ==
    { [account_id   |-> a.account_id,
       account_name |-> a.account_name,
       account_type |-> a.account_type,
       total_debit  |-> SumDebit(EntriesOfAccount(je, a.account_id)),
       total_credit |-> SumCredit(EntriesOfAccount(je, a.account_id)),
       balance      |-> SumDebitMinusCredit(EntriesOfAccount(je, a.account_id))]
      : a \in {b \in acc : /\ b.account_type \in {"Asset", "Liability", "Equity"}
                           /\ b.account_id \in {j.account_id : j \in je}} }

\* GROUP BY a.account_id, a.account_name, a.account_type over the join:
\* account_id is the key of accounts, so one row per account that has a
\* joined entry
GroupedByAccount(acc, je) ==
    { [account_id   |-> a.account_id,
       account_name |-> a.account_name,
       account_type |-> a.account_type,
       total_debit  |-> SumDebit(EntriesOfAccount(je, a.account_id)),
       total_credit |-> SumCredit(EntriesOfAccount(je, a.account_id)),
       balance      |-> SumDebitMinusCredit(EntriesOfAccount(je, a.account_id))]
      : a \in {b \in acc : b.account_id \in {j.account_id : j \in je}} }

AccountBalances(acc, je) == RowsOf(GroupedByAccount(acc, je))

TrialBalanceShortRow(r) ==
    [account_id   |-> r.account_id,
     account_name |-> r.account_name,
     account_type |-> r.account_type,
     debit        |-> SplitDebit(r.balance),
     credit       |-> SplitCredit(r.balance)]

RECURSIVE TrialBalanceShortRows(_)
TrialBalanceShortRows(tb) ==
    IF tb = {} THEN <<>>
    ELSE LET r == CHOOSE x \in tb : TRUE
         IN  <<TrialBalanceShortRow(r)>> \o TrialBalanceShortRows(tb \ {r})

TrialBalanceShort(acc, je) == TrialBalanceShortRows(GroupedByAccount(acc, je))

(* SQL_BS_DETAIL *)

BalanceSheetDetailRow(r) ==
    [section      |-> Section(r.account_type),
     account_name |-> r.account_name,
     balance      |-> r.balance]

RECURSIVE BalanceSheetDetailRows(_)
BalanceSheetDetailRows(bs) ==
    IF bs = {} THEN <<>>
    ELSE LET r == CHOOSE x \in bs : TRUE
         IN  <<BalanceSheetDetailRow(r)>> \o BalanceSheetDetailRows(bs \ {r})

BalanceSheetDetail(acc, je) ==
    BalanceSheetDetailRows(GroupedByNameAndType(acc, je, BalanceSheetTypes))

----------------------------------------------------------------------------
(* The grids of the manual-input tab. *)

GridAccount(id, name, type) ==
    [account_id |-> id, account_name |-> name, account_type |-> type]

GridEntry(id, acc, date, debit, credit) ==
    [entry_id |-> id, account_id |-> acc, entry_date |-> date,
     debit |-> debit, credit |-> credit]

AccountRowChoices ==
    { GridAccount(Cell(1), Cell("Cash"),  Cell("Asset")),
      GridAccount(Cell(2), Cell("Sales"), Cell("Revenue")),
      GridAccount(Cell(2), Cell("Cash"),  Cell("Asset")),
      GridAccount(Null,    Cell("Cash"),  Cell("Asset")),
      GridAccount(Cell(1), Null,          Cell("Asset")),
      GridAccount(Cell(2), Cell("Sales"), Null) }

JournalRowChoices ==
    { GridEntry(Cell(1), Cell(1), Cell("2025-02-01"), Cell(5), Null),
      GridEntry(Cell(2), Cell(2), Null,               Null,    Cell(5)),
      GridEntry(Null,    Cell(1), Cell("2025-02-01"), Cell(5), Cell(0)),
      GridEntry(Cell(2), Null,    Cell("2025-02-01"), Cell(0), Cell(5)) }

SeqsUpTo(S, n) == UNION {[1..k -> S] : k \in 0..n}

----------------------------------------------------------------------------
(* The state machine. *)

SeedStore == EndTransaction(<<{}, {}>>, SeedTransaction({}, {}))

\* the worker threads that run the handlers of app.py
Threads == {"t1", "t2"}

\* get_connection(): ENGINE.begin() gives each call a connection of its own
ConnOfShared(w) == "t1"

ConnOf(w) == w

\* fetch_df(): ENGINE.connect() gives each query a connection of its own,
\* never the one a mutator is writing through
FetchConnShared == "t1"

FetchConn == "fetch"

Connections == {ConnOf(w) : w \in Threads} \cup {FetchConn}

\* a thread that is in no mutator call
IdleCall ==
    [status |-> "idle", op |-> "none", adf |-> <<>>, jdf |-> <<>>,
     next |-> 0, ok |-> TRUE, pre |-> <<>>, second |-> FALSE]

\* no get_balance_sheet_detail_totals() call under way
IdleReader ==
    [pc |-> "idle", detail |-> <<>>, totals |-> <<>>,
     detailView |-> <<>>, during |-> <<>>]

\* nothing of the process is inside a call
Quiescent ==
    /\ call = [w \in Threads |-> IdleCall]
    /\ work = [c \in Connections |-> <<>>]
    /\ lock = "none"
    /\ reader = IdleReader

\* the process has started: app.py has called init_db() on a fresh database,
\* and the user has filled the two grids
Init ==
    /\ accounts = SeedStore[1]
    /\ journal_entries = SeedStore[2]
    /\ accounts_df \in SeqsUpTo(AccountRowChoices, MaxAccountRows)
    /\ journal_df \in SeqsUpTo(JournalRowChoices, MaxJournalRows)
    /\ Len(accounts_df) + Len(journal_df) <= MaxGridRows
    /\ lastOp = "init"
    /\ lastOk = TRUE
    /\ prevAccounts = {}
    /\ prevEntries = {}
    /\ Quiescent

Finish(op, t) ==
    LET post == EndTransaction(<<accounts, journal_entries>>, t) IN
    /\ accounts' = post[1]
    /\ journal_entries' = post[2]
    /\ lastOp' = op
    /\ lastOk' = t.ok
    /\ prevAccounts' = accounts
    /\ prevEntries' = journal_entries
    /\ UNCHANGED <<accounts_df, journal_df, call, work, lock, reader>>

\* init_db(): CREATE TABLE IF NOT EXISTS (the tables exist), then seed_data()
InitDb == Finish("init", SeedTransaction(accounts, journal_entries))

SeedData == Finish("seed", SeedTransaction(accounts, journal_entries))

ClearDataOnly == Finish("clear", ClearTables(Begin(accounts, journal_entries)))

ApplyManualEntries ==
    Finish("replace",
           ManualTransaction(accounts, journal_entries, accounts_df, journal_df))

Next == InitDb \/ SeedData \/ ClearDataOnly \/ ApplyManualEntries

Spec == Init /\ [][Next]_vars

----------------------------------------------------------------------------
(* The same mutators and the balance-sheet query, run by concurrent        *)
(* threads, one SQL statement at a time.  SQLite keeps the changes of an   *)
(* open transaction in the writing connection until COMMIT, lets one       *)
(* connection write at a time, and shows every other connection the        *)
(* committed tables.  SpecQuery runs the query against one mutating        *)
(* thread, SpecMutators runs two mutating threads against each other.      *)

DeleteStatements ==
    << [kind |-> "delete_entries", rows |-> <<>>],
       [kind |-> "delete_accounts", rows |-> <<>>] >>

\* one INSERT per row of accounts_df that is not skipped
RECURSIVE AccountStatements(_, _)
AccountStatements(rows, i) ==
    IF i > Len(rows) THEN <<>>
    ELSE IF AccountRowSkipped(rows[i]) THEN AccountStatements(rows, i + 1)
    ELSE << [kind |-> "insert_accounts", rows |-> <<AccountParams(rows[i])>>] >>
         \o AccountStatements(rows, i + 1)

\* one INSERT per row of journal_df that is not skipped
RECURSIVE JournalStatements(_, _)
JournalStatements(rows, i) ==
    IF i > Len(rows) THEN <<>>
    ELSE IF JournalRowSkipped(rows[i]) THEN JournalStatements(rows, i + 1)
    ELSE << [kind |-> "insert_entries", rows |-> <<JournalParams(rows[i])>>] >>
         \o JournalStatements(rows, i + 1)

\* the statements a mutator executes on its connection, in order
Statements(op, adf, jdf) ==
    CASE op = "seed" ->
            DeleteStatements
            \o << [kind |-> "insert_accounts", rows |-> SeedAccountRows],
                  [kind |-> "insert_entries", rows |-> SeedJournalRows] >>
      [] op = "clear" -> DeleteStatements
      [] op = "replace" ->
            DeleteStatements \o AccountStatements(adf, 1)
            \o JournalStatements(jdf, 1)
      [] OTHER -> <<>>

\* conn.execute(text(stmt)) on the transaction t
ExecStatement(t, stmt) ==
    CASE stmt.kind = "delete_entries"  -> DeleteEntries(t)
      [] stmt.kind = "delete_accounts" -> DeleteAccounts(t)
      [] stmt.kind = "insert_accounts" -> InsertSeedAccounts(stmt.rows, 1, t)
      [] stmt.kind = "insert_entries"  -> InsertSeedEntries(stmt.rows, 1, t)

\* the grids a thread may hand to apply_manual_entries
SessionGrids ==
    { << <<GridAccount(Cell(1), Cell("Cash"), Cell("Asset"))>>,
         <<GridEntry(Cell(1), Cell(1), Cell("2025-02-01"), Cell(5), Null)>> >>,
      << <<GridAccount(Cell(2), Cell("Sales"), Cell("Revenue")),
           GridAccount(Null, Cell("Cash"), Cell("Asset"))>>,
         <<GridEntry(Cell(2), Cell(2), Null, Null, Cell(5))>> >>,
      << <<GridAccount(Cell(2), Cell("Sales"), Cell("Revenue")),
           GridAccount(Cell(2), Cell("Cash"), Cell("Asset"))>>,
         <<>> >> }

\* the variables only the sequential specification uses
seqVars ==
    <<accounts_df, journal_df, lastOp, lastOk, prevAccounts, prevEntries>>

\* a thread enters a mutator: ENGINE.begin() hands it a connection; SQLite
\* takes no lock before the first statement.  pre is the store as the call
\* finds it; second marks the later of two calls that overlap.
Call(w, op, adf, jdf) ==
    /\ call[w].status = "idle"
    /\ call' = [v \in Threads |->
                   IF v = w
                   THEN [status |-> "running", op |-> op,
                         adf |-> adf, jdf |-> jdf, next |-> 1, ok |-> TRUE,
                         pre |-> <<accounts, journal_entries>>,
                         second |-> \E u \in Threads \ {w} :
                                       call[u].status = "running"]
                   ELSE [call[v] EXCEPT !.second = FALSE]]
    /\ UNCHANGED <<accounts, journal_entries, work, lock, reader, seqVars>>

CallSeed(w) == Call(w, "seed", <<>>, <<>>)

CallClear(w) == Call(w, "clear", <<>>, <<>>)

CallReplace(w) == \E g \in SessionGrids : Call(w, "replace", g[1], g[2])

\* the transaction of the connection of w: the open one, or one that begins
\* now on the committed tables
OpenTransaction(w) ==
    IF work[ConnOf(w)] # <<>> THEN work[ConnOf(w)][1]
    ELSE [txn |-> Begin(accounts, journal_entries),
          pre |-> <<accounts, journal_entries>>,
          by  |-> w]

\* what the next statement of w makes of that transaction
NextStatementResult(w) ==
    ExecStatement(OpenTransaction(w).txn,
                  Statements(call[w].op, call[w].adf, call[w].jdf)[call[w].next])

\* w has a statement left, and SQLite lets its connection write
CanExecute(w) ==
    /\ call[w].status = "running"
    /\ call[w].next <= Len(Statements(call[w].op, call[w].adf, call[w].jdf))
    /\ lock \in {"none", ConnOf(w)}

\* the next statement of w executes: its connection holds the write lock
\* from the first statement on, and the change stays in the connection
Execute(w) ==
    /\ CanExecute(w)
    /\ NextStatementResult(w).ok
    /\ work' = [work EXCEPT ![ConnOf(w)] =
                   <<[OpenTransaction(w) EXCEPT !.txn = NextStatementResult(w)]>>]
    /\ lock' = ConnOf(w)
    /\ call' = [call EXCEPT ![w].next = @ + 1]
    /\ UNCHANGED <<accounts, journal_entries, reader, seqVars>>

\* the next statement of w raises: the with block of get_connection() rolls
\* the transaction back and the exception leaves the mutator
Raise(w) ==
    /\ CanExecute(w)
    /\ ~NextStatementResult(w).ok
    /\ work' = [work EXCEPT ![ConnOf(w)] = <<>>]
    /\ lock' = "none"
    /\ call' = [call EXCEPT ![w].status = "done", ![w].ok = FALSE,
                            ![w].next = 0]
    /\ UNCHANGED <<accounts, journal_entries, reader, seqVars>>

\* another connection holds the write lock for longer than the busy
\* timeout: the statement of w raises "database is locked"
Busy(w) ==
    /\ call[w].status = "running"
    /\ lock \notin {"none", ConnOf(w)}
    /\ call' = [call EXCEPT ![w].status = "done", ![w].ok = FALSE,
                            ![w].next = 0]
    /\ UNCHANGED <<accounts, journal_entries, work, lock, reader, seqVars>>

\* the with block of get_connection() ends without an exception: COMMIT
Commit(w) ==
    LET c    == ConnOf(w)
        post == IF work[c] = <<>> THEN <<accounts, journal_entries>>
                ELSE EndTransaction(<<accounts, journal_entries>>,
                                    work[c][1].txn)
    IN  /\ call[w].status = "running"
        /\ call[w].next > Len(Statements(call[w].op, call[w].adf, call[w].jdf))
        /\ accounts' = post[1]
        /\ journal_entries' = post[2]
        /\ work' = [work EXCEPT ![c] = <<>>]
        /\ lock' = IF lock = c THEN "none" ELSE lock
        /\ call' = [call EXCEPT ![w].status = "done", ![w].next = 0]
        /\ UNCHANGED <<reader, seqVars>>

\* the handler of app.py has shown the outcome; the thread is free again
Return(w) ==
    /\ call[w].status = "done"
    /\ call' = [call EXCEPT ![w] = IdleCall]
    /\ UNCHANGED <<accounts, journal_entries, work, lock, reader, seqVars>>

\* the tables a statement on connection c reads: its own open transaction,
\* else what is committed
View(c) ==
    IF work[c] = <<>> THEN <<accounts, journal_entries>>
    ELSE <<work[c][1].txn.accounts, work[c][1].txn.journal_entries>>

\* the mutator whose transaction is open while a query runs, if any: the
\* store it began on, its call, and the tables as it has left them so far
During ==
    IF lock = "none" THEN <<>>
    ELSE LET o == work[lock][1]
         IN  << [pre    |-> o.pre,
                 op     |-> call[o.by].op,
                 adf    |-> call[o.by].adf,
                 jdf    |-> call[o.by].jdf,
                 tables |-> <<o.txn.accounts, o.txn.journal_entries>>] >>

\* detail = fetch_df(SQL_BS_DETAIL)
ReadDetail ==
    LET v == View(FetchConn) IN
    /\ reader.pc = "idle"
    /\ reader' = [pc |-> "detail",
                  detail |-> BalanceSheetDetail(v[1], v[2]),
                  totals |-> <<>>,
                  detailView |-> v, during |-> During]
    /\ UNCHANGED <<accounts, journal_entries, call, work, lock, seqVars>>

\* totals = fetch_df(SQL_BS_TOTALS)
ReadTotals ==
    LET v == View(FetchConn) IN
    /\ reader.pc = "detail"
    /\ reader' = [reader EXCEPT !.pc = "done",
                                !.totals = BalanceSheetTotals(v[1], v[2])]
    /\ UNCHANGED <<accounts, journal_entries, call, work, lock, seqVars>>

\* return detail, totals
ReaderReturn ==
    /\ reader.pc = "done"
    /\ reader' = IdleReader
    /\ UNCHANGED <<accounts, journal_entries, call, work, lock, seqVars>>

\* the process has started and no handler is running
InitConc ==
    /\ accounts = SeedStore[1]
    /\ journal_entries = SeedStore[2]
    /\ accounts_df = <<>>
    /\ journal_df = <<>>
    /\ lastOp = "init"
    /\ lastOk = TRUE
    /\ prevAccounts = {}
    /\ prevEntries = {}
    /\ Quiescent

\* one thread in the mutators, one in get_balance_sheet_detail_totals()
NextQuery ==
    \/ \E w \in {"t1"} :
          \/ CallSeed(w) \/ CallClear(w) \/ CallReplace(w)
          \/ Execute(w) \/ Raise(w) \/ Commit(w) \/ Return(w)
    \/ ReadDetail \/ ReadTotals \/ ReaderReturn

SpecQuery == InitConc /\ [][NextQuery]_vars

\* two threads in the mutators
NextMutators ==
    \E w \in Threads :
        \/ CallSeed(w) \/ CallClear(w) \/ CallReplace(w)
        \/ Execute(w) \/ Raise(w) \/ Busy(w) \/ Commit(w) \/ Return(w)

SpecMutators == InitConc /\ [][NextMutators]_vars

----------------------------------------------------------------------------
(* The query functions, on the store as it is. *)

get_trial_balance_long == TrialBalanceLong(accounts, journal_entries)

get_balance_sheet_totals == BalanceSheetTotals(accounts, journal_entries)

get_income_statement_summary == IncomeStatement(accounts, journal_entries)

get_trial_balance_short == TrialBalanceShort(accounts, journal_entries)

get_account_balances == AccountBalances(accounts, journal_entries)

\* df[["debit", "credit"]].sum() of view_trial_balance
RECURSIVE TotalDebit(_)
TotalDebit(rows) ==
    IF rows = <<>> THEN 0 ELSE Head(rows).debit + TotalDebit(Tail(rows))

RECURSIVE TotalCredit(_)
TotalCredit(rows) ==
    IF rows = <<>> THEN 0 ELSE Head(rows).credit + TotalCredit(Tail(rows))

----------------------------------------------------------------------------
(* What the statements of the specification say about a call's arguments.  *)

\* the account rows a replace keeps: id, name and type all present
KeptAccountRows ==
    {i \in 1..Len(accounts_df) :
        /\ accounts_df[i].account_id # Null
        /\ accounts_df[i].account_name # Null
        /\ accounts_df[i].account_type # Null}

\* the entry rows a replace keeps: entry id and account reference present
KeptJournalRows ==
    {i \in 1..Len(journal_df) :
        /\ journal_df[i].entry_id # Null
        /\ journal_df[i].account_id # Null}

HasDuplicateKey ==
    \/ \E i, k \in KeptAccountRows :
          i # k /\ accounts_df[i].account_id = accounts_df[k].account_id
    \/ \E i, k \in KeptJournalRows :
          i # k /\ journal_df[i].entry_id = journal_df[k].entry_id

HasOrphanEntry ==
    \E i \in KeptJournalRows :
        \A k \in KeptAccountRows :
            accounts_df[k].account_id # journal_df[i].account_id

StoreAsBeforeCall ==
    accounts = prevAccounts /\ journal_entries = prevEntries

NoIncomeAccountJoined ==
    ~ \E a \in accounts, j \in journal_entries :
          a.account_type \in {"Revenue", "Expense"} /\ j.account_id = a.account_id

NoBalanceSheetAccountJoined ==
    ~ \E a \in accounts, j \in journal_entries :
          /\ a.account_type \in {"Asset", "Liability", "Equity"}
          /\ j.account_id = a.account_id

----------------------------------------------------------------------------
(* C1: after seed() the totals row of the balance sheet has                *)
(* balance_difference = total_assets - (total_liabilities + total_equity)  *)
(* equal to 0.                                                             *)
C1_SeededBalanceDifferenceIsZero ==
    lastOp = "seed" =>
        /\ Len(get_balance_sheet_totals) = 1
        /\ get_balance_sheet_totals[1].balance_difference = Cell(0)

(* C2: a replace whose arguments hold a kept entry that references no kept *)
(* account raises, and leaves both tables as they were before the call.    *)
C2_OrphanEntryFailsTheCall ==
    (lastOp = "replace" /\ HasOrphanEntry) => (~lastOk /\ StoreAsBeforeCall)

(* C3: when no Revenue or Expense account is joined to an entry, the       *)
(* income statement has no row at all.                                     *)
C3_NoIncomeAccountsGivesNoRow ==
    NoIncomeAccountJoined => Len(get_income_statement_summary) = 0

(* C4: when no Asset, Liability or Equity account is joined to an entry,   *)
(* the balance-sheet totals are one row whose four fields are all 0.       *)
C4_NoBalanceSheetAccountsGivesZeroRow ==
    NoBalanceSheetAccountJoined =>
        get_balance_sheet_totals =
            << [total_assets       |-> Cell(0),
                total_liabilities  |-> Cell(0),
                total_equity       |-> Cell(0),
                balance_difference |-> Cell(0)] >>

(* C5: a replace whose arguments hold two kept account rows with the same  *)
(* account_id, or two kept entries with the same entry_id, raises, and     *)
(* both tables equal their contents before the call.                       *)
C5_DuplicateKeyRollsBack ==
    (lastOp = "replace" /\ HasDuplicateKey) => (~lastOk /\ StoreAsBeforeCall)

\* a failed replace whose second entry repeated the first one's entry_id,
\* after the deletes, an account insert and an entry insert had run, on a
\* store that was not empty
C5_Witness ==
    /\ lastOp = "replace" /\ ~lastOk
    /\ KeptAccountRows # {}
    /\ Cardinality(KeptAccountRows) = Cardinality({accounts_df[i].account_id : i \in KeptAccountRows})
    /\ \E i, k \in KeptJournalRows :
          i # k /\ journal_df[i].entry_id = journal_df[k].entry_id
    /\ prevAccounts # {} /\ prevEntries # {}
    /\ StoreAsBeforeCall

(* C6: after a successful replace the accounts table holds exactly the     *)
(* account rows of the call whose id, name and type are all present.       *)
C6_ReplaceStoresExactlyCompleteAccounts ==
    (lastOp = "replace" /\ lastOk) =>
        accounts = { [account_id   |-> accounts_df[i].account_id[1],
                      account_name |-> accounts_df[i].account_name[1],
                      account_type |-> accounts_df[i].account_type[1]]
                     : i \in KeptAccountRows }

\* a successful replace of a non-empty store by a grid with one complete
\* row and one row that lacks its type
C6_Witness ==
    /\ lastOp = "replace" /\ lastOk
    /\ prevAccounts # {}
    /\ Cardinality(accounts) = 1
    /\ \E i \in 1..Len(accounts_df) :
          /\ accounts_df[i].account_type = Null
          /\ accounts_df[i].account_id # Null
          /\ accounts_df[i].account_name # Null

(* C7: after a successful replace journal_entries holds exactly the        *)
(* entries of the call whose entry_id and account_id are present, a        *)
(* missing debit or credit stored as 0, a missing entry_date stored as     *)
(* '2025-01-01', every present value stored as given.                      *)
C7_ReplaceStoresExactlyKeptEntries ==
    (lastOp = "replace" /\ lastOk) =>
        journal_entries =
            { [entry_id   |-> journal_df[i].entry_id[1],
               account_id |-> journal_df[i].account_id[1],
               entry_date |-> IF journal_df[i].entry_date = Null
                              THEN "2025-01-01" ELSE journal_df[i].entry_date[1],
               debit      |-> IF journal_df[i].debit = Null
                              THEN 0 ELSE journal_df[i].debit[1],
               credit     |-> IF journal_df[i].credit = Null
                              THEN 0 ELSE journal_df[i].credit[1]]
              : i \in KeptJournalRows }

\* a successful replace of a non-empty journal that skipped one row and
\* stored one entry with the fallback date and a defaulted debit
C7_Witness ==
    /\ lastOp = "replace" /\ lastOk
    /\ prevEntries # {}
    /\ Len(journal_df) = 2 /\ Cardinality(journal_entries) = 1
    /\ \E j \in journal_entries :
          j.entry_date = "2025-01-01" /\ j.debit = 0 /\ j.credit = 5

(* C8: after seed() or init(), from any store, the call has returned and   *)
(* the store is the demo dataset of 13 accounts and 18 entries.            *)
C8_SeedResetsToDemoDataset ==
    lastOp \in {"seed", "init"} =>
        /\ lastOk
        /\ accounts = {SeedAccountRows[i] : i \in 1..Len(SeedAccountRows)}
        /\ journal_entries = {SeedJournalRows[i] : i \in 1..Len(SeedJournalRows)}
        /\ Cardinality(accounts) = 13
        /\ Cardinality(journal_entries) = 18

\* a seed() that started from a store a manual replace had written
C8_Witness ==
    /\ lastOp = "seed"
    /\ \E a \in prevAccounts : a.account_name = "Sales"
    /\ \E j \in prevEntries : j.entry_date = "2025-02-01"
    /\ Cardinality(accounts) = 13

(* C9: after seed() the debit column of the long trial balance and its     *)
(* credit column have the same total.                                      *)
C9_SeededTrialBalanceBalances ==
    lastOp = "seed" =>
        LET rows == get_trial_balance_long
        IN  TotalDebit(rows) = TotalCredit(rows)

\* the seeded trial balance: eleven rows, 100000 on each side
C9_Witness ==
    /\ lastOp = "seed"
    /\ Len(get_trial_balance_long) = 11
    /\ TotalDebit(get_trial_balance_long) = 100000
    /\ TotalCredit(get_trial_balance_long) = 100000

(* C10: after seed() the income statement is one row with total_revenue    *)
(* 43000, total_expense 7000 and net_income 36000.                         *)
C10_SeededIncomeStatement ==
    lastOp = "seed" =>
        get_income_statement_summary =
            << [total_revenue |-> Cell(43000),
                total_expense |-> Cell(7000),
                net_income    |-> Cell(36000)] >>

\* a seed() that replaced an empty ledger, whose income statement was a
\* row of NULLs, by one with revenue and expense
C10_Witness ==
    /\ lastOp = "seed"
    /\ prevAccounts = {} /\ prevEntries = {}
    /\ Len(get_income_statement_summary) = 1
    /\ get_income_statement_summary[1].total_revenue # Null

----------------------------------------------------------------------------
(* Column totals and row lookups used by the statements below. *)

RECURSIVE TotalBalance(_)
TotalBalance(rows) ==
    IF rows = <<>> THEN 0 ELSE Head(rows).balance + TotalBalance(Tail(rows))

Max(x, y) == IF x >= y THEN x ELSE y

\* sum(debit) - sum(credit) over the entries of the accounts with this id
BalanceOfId(id) ==
    LET ents == {j \in journal_entries : j.account_id = id}
    IN  SumDebit(ents) - SumCredit(ents)

\* sum(debit) - sum(credit) over the entries of the accounts shown under
\* this section and name
BalanceOfSectionAndName(section, name) ==
    LET ids  == {a.account_id :
                    a \in {b \in accounts : /\ b.account_name = name
                                            /\ Section(b.account_type) = section}}
        ents == {j \in journal_entries : j.account_id \in ids}
    IN  SumDebit(ents) - SumCredit(ents)

HasEntries(a) == \E j \in journal_entries : j.account_id = a.account_id

InLong(rows, a) ==
    \E i \in 1..Len(rows) : /\ rows[i].account_name = a.account_name
                            /\ rows[i].section = Section(a.account_type)

InShort(rows, a) ==
    \E i \in 1..Len(rows) : rows[i].account_id = a.account_id

(* C11: whenever the debits of all journal_entries rows total the same as  *)
(* their credits, the balance column of account_balances() totals 0.       *)
C11_BalancedLedgerHasZeroTotalBalance ==
    SumDebit(journal_entries) = SumCredit(journal_entries)
        => TotalBalance(get_account_balances) = 0

(* C12: the long trial balance shows equal debit and credit totals only if *)
(* the debits of all journal_entries rows total the same as their credits. *)
C12_BalancedTrialBalanceOnlyIfLedgerBalanced ==
    LET rows == get_trial_balance_long
    IN  TotalDebit(rows) = TotalCredit(rows)
            => SumDebit(journal_entries) = SumCredit(journal_entries)

(* C13: every row of the long and of the short trial balance has           *)
(* debit = max(balance, 0) and credit = max(-balance, 0) for the balance   *)
(* sum(debit) - sum(credit) of the row's group, so both are non-negative   *)
(* and at most one is non-zero.                                            *)
C13_RowsSplitTheBalance ==
    LET long  == get_trial_balance_long
        short == get_trial_balance_short
    IN  /\ \A i \in 1..Len(long) :
              LET b == BalanceOfSectionAndName(long[i].section, long[i].account_name)
              IN  /\ long[i].debit = Max(b, 0)
                  /\ long[i].credit = Max(-b, 0)
                  /\ long[i].debit >= 0 /\ long[i].credit >= 0
                  /\ (long[i].debit = 0 \/ long[i].credit = 0)
        /\ \A i \in 1..Len(short) :
              LET b == BalanceOfId(short[i].account_id)
              IN  /\ short[i].debit = Max(b, 0)
                  /\ short[i].credit = Max(-b, 0)
                  /\ short[i].debit >= 0 /\ short[i].credit >= 0
                  /\ (short[i].debit = 0 \/ short[i].credit = 0)

\* a store whose short trial balance has a pure debit row and a pure credit
\* row, and whose long trial balance has a row of balance 0
C13_Witness ==
    LET long  == get_trial_balance_long
        short == get_trial_balance_short
    IN  /\ \E i \in 1..Len(short) : short[i].debit = 0 /\ short[i].credit = 5
        /\ \E i \in 1..Len(short) : short[i].debit = 5 /\ short[i].credit = 0
        /\ \E i \in 1..Len(long) : long[i].debit = 0 /\ long[i].credit = 0

(* C14: every journal_entries row references the account_id of a row of    *)
(* accounts.                                                               *)
C14_EveryEntryReferencesAnAccount ==
    \A j \in journal_entries : \E a \in accounts : a.account_id = j.account_id

(* C15: every row of accounts, with or without journal entries, appears in *)
(* the long and in the short trial balance.                                *)
C15_EveryAccountIsListed ==
    \A a \in accounts :
        /\ InLong(get_trial_balance_long, a)
        /\ InShort(get_trial_balance_short, a)

(* C15 as amended: every account that has a journal entry appears in the   *)
(* long and in the short trial balance, and an account without entries has *)
(* no row in the short one.                                                *)
C15_EveryAccountWithEntriesIsListed ==
    LET long  == get_trial_balance_long
        short == get_trial_balance_short
    IN  \A a \in accounts :
            /\ HasEntries(a) => InLong(long, a)
            /\ HasEntries(a) <=> InShort(short, a)

\* the store after seed(): 13 accounts, 11 of them with entries and listed,
\* 'Notes Payable' with none and not listed
C15_Witness ==
    /\ lastOp = "seed"
    /\ Cardinality(accounts) = 13
    /\ Len(get_trial_balance_short) = 11
    /\ \E a \in accounts :
          /\ a.account_name = "Notes Payable"
          /\ ~HasEntries(a)
          /\ ~InShort(get_trial_balance_short, a)
    /\ \E a \in accounts :
          a.account_name = "Cash" /\ InLong(get_trial_balance_long, a)

(* C19: the long and the short trial balance have the same number of rows, *)
(* the same debit total and the same credit total.                         *)
C19_LongAndShortAgree ==
    LET long  == get_trial_balance_long
        short == get_trial_balance_short
    IN  /\ Len(long) = Len(short)
        /\ TotalDebit(long) = TotalDebit(short)
        /\ TotalCredit(long) = TotalCredit(short)

----------------------------------------------------------------------------
(* What the statements of the specification say about concurrent calls.    *)

\* the store a whole seed(), clear() or replace(adf, jdf) leaves when it
\* runs alone on the store pre
PostStore(op, adf, jdf, pre) ==
    CASE op = "seed" ->
            EndTransaction(pre, SeedTransaction(pre[1], pre[2]))
      [] op = "clear" ->
            EndTransaction(pre, ClearTables(Begin(pre[1], pre[2])))
      [] op = "replace" ->
            EndTransaction(pre, ManualTransaction(pre[1], pre[2], adf, jdf))
      [] OTHER -> pre

\* the filtered input of replace(adf, jdf): the complete account rows and
\* the entry rows with an id and an account reference, as stored
FilteredInput(adf, jdf) ==
    << {AccountParams(adf[i]) :
            i \in {k \in 1..Len(adf) :
                      /\ adf[k].account_id # Null
                      /\ adf[k].account_name # Null
                      /\ adf[k].account_type # Null}},
       {JournalParams(jdf[i]) :
            i \in {k \in 1..Len(jdf) :
                      /\ jdf[k].entry_id # Null
                      /\ jdf[k].account_id # Null}} >>

\* both threads are at the end of replace() calls that overlapped
TwoOverlappingReplacesFinished ==
    /\ \A w \in Threads : call[w].status = "done" /\ call[w].op = "replace"
    /\ \E w \in Threads : call[w].second

----------------------------------------------------------------------------
(* C16: a query that runs while seed(), clear() or replace() has its       *)
(* transaction open reads either the complete store the mutator began on   *)
(* or the complete store the mutator leaves, never the tables as the       *)
(* mutator has changed them so far.                                        *)

C16_QuerySeesPreOrPostStore ==
    reader.during # <<>> =>
        LET d == reader.during[1] IN
        /\ reader.detailView \in {d.pre, PostStore(d.op, d.adf, d.jdf, d.pre)}
        /\ reader.detail \in
              {BalanceSheetDetail(d.pre[1], d.pre[2]),
               BalanceSheetDetail(PostStore(d.op, d.adf, d.jdf, d.pre)[1],
                                  PostStore(d.op, d.adf, d.jdf, d.pre)[2])}

\* the query ran when a mutator had deleted the entries and not yet the
\* accounts, and read the store the mutator began on
C16_Witness ==
    /\ reader.during # <<>>
    /\ reader.during[1].tables[2] = {}
    /\ reader.during[1].tables[1] = reader.during[1].pre[1]
    /\ reader.during[1].pre[2] # {}
    /\ reader.during[1].tables #
          PostStore(reader.during[1].op, reader.during[1].adf,
                    reader.during[1].jdf, reader.during[1].pre)
    /\ reader.detailView = reader.during[1].pre

----------------------------------------------------------------------------
(* C17: the totals that one get_balance_sheet_detail_totals() call         *)
(* returns are the totals of the store its detail was read from.           *)

C17_DetailAndTotalsFromOneStore ==
    reader.pc = "done" =>
        reader.totals =
            BalanceSheetTotals(reader.detailView[1], reader.detailView[2])

----------------------------------------------------------------------------
(* C18: when two overlapping replace() calls have both finished, the       *)
(* store is exactly the filtered input of one of them that committed, or   *)
(* the store as the later call found it when neither committed.            *)

C18_ConcurrentReplaceIsLastWriterWins ==
    TwoOverlappingReplacesFinished =>
        LET committed == {w \in Threads : call[w].ok}
            later     == CHOOSE w \in Threads : call[w].second
        IN  IF committed = {}
            THEN <<accounts, journal_entries>> = call[later].pre
            ELSE \E w \in committed :
                    <<accounts, journal_entries>> =
                        FilteredInput(call[w].adf, call[w].jdf)

\* both calls committed, with different filtered inputs
C18_Witness ==
    /\ TwoOverlappingReplacesFinished
    /\ \A w \in Threads : call[w].ok
    /\ FilteredInput(call["t1"].adf, call["t1"].jdf) #
          FilteredInput(call["t2"].adf, call["t2"].jdf)
    /\ <<accounts, journal_entries>> =
          FilteredInput(call["t2"].adf, call["t2"].jdf)
    /\ call["t1"].second

=============================================================================
